---- MODULE Spec2Model ----
(***************************************************************************)
(* State machine of the MusicPlayer component (src/src/app/page.tsx).     *)
(*                                                                         *)
(* Every handler of the component is one action.  A handler's action      *)
(* includes the re-render it causes and the effects React runs after it:  *)
(* the audio-sync effect (deps [current, volume]) and the track-change    *)
(* effect (deps [current]).  Values a closure captures at the render in   *)
(* which it was created are kept in variables of their own (cap, the      *)
(* duration field of a drag), because the code reads those and not the    *)
(* live state.                                                             *)
(*                                                                         *)
(* Units: volume and pointer fractions are percentages (0.2 is 20);       *)
(* durations are seconds; a commanded currentTime is duration * percent,  *)
(* i.e. hundredths of a second.                                            *)
(***************************************************************************)
EXTENDS Integers, Sequences, FiniteSets, TLC

\* ------------------------------------------------------------------ bounds
NumSongs == 3          \* songs.length of the hardcoded list
InitialVolume == 20    \* useState(0.2)
MaxSongs == 3          \* track counts 1..MaxSongs explored by SpecTracks
MaxPending == 2        \* togglePlay continuations pending at once
MaxDrags == 2          \* drag listener pairs registered on the window at once

Fractions == {-50, 20, 150}     \* (clientX - rect.left) / rect.width, percent
PlayerStates == {"playing", "paused", "loading"}
RepeatModes == {"off", "one", "all"}

VARIABLES
    nSongs,        \* songs.length
    current,       \* useState(0)
    state,         \* useState<PlayerState>("paused")
    duration,      \* useState(0)
    volume,        \* useState(0.2)
    userStarted,   \* useState(false)
    isShuffle,     \* useState(false)
    repeatMode,    \* useState("off")
    mounted,       \* audioRef.current is the audio element (not null)
    audio,         \* the media element: paused, metadata loaded, volume
    cap,           \* what the attached "ended" listener closed over
    toggles,       \* pending togglePlay continuations, oldest first
    drags,         \* window move/up listener pairs of the drags, oldest first
    raised,        \* an uncaught TypeError was thrown by a continuation
    pressed,       \* the devices whose pointer is down on a bar (a drag in progress)
    ptr,           \* the fraction of the last pointer event
    issued,        \* commands the last step issued to the media element
    lastOp         \* the handler that ran last

vars == <<nSongs, current, state, duration, volume, userStarted, isShuffle,
          repeatMode, mounted, audio, cap, toggles, drags,
          raised, pressed, ptr, issued, lastOp>>

\* ----------------------------------------------------------------- helpers
Min(a, b) == IF a < b THEN a ELSE b
Max(a, b) == IF a > b THEN a ELSE b

Cmd(c, a) == [cmd |-> c, arg |-> a]

\* audio.duration of track i once its metadata is loaded (environment)
TrackDuration(i) == 2 + (i % 2)

\* Math.min(1, Math.max(0, percent))
\* the clamp with its upper limit left out
ClampNoUpper(percent) == Max(0, percent)

Clamp(percent) == Min(100, Max(0, percent))

\* NextRepeat without the "one" -> "all" arm: "all" is never produced
NextRepeatSkipsAll(mode) == IF mode = "off" THEN "one" ELSE "off"

\* mode === "off" ? "one" : mode === "one" ? "all" : "off"
NextRepeat(mode) == IF mode = "off" THEN "one" ELSE IF mode = "one" THEN "all" ELSE "off"

\* NextIndex without the modulo
NextIndexNoWrap(prev, n) == prev + 1

\* (prev + 1) % songs.length
NextIndex(prev, n) == (prev + 1) % n

\* PrevIndex without the test for the first track
PrevIndexNoWrap(prev, n) == prev - 1

\* prev === 0 ? songs.length - 1 : prev - 1
PrevIndex(prev, n) == IF prev = 0 THEN n - 1 ELSE prev - 1

\* shuffle() drawing from one index too many: Math.random() * (songs.length + 1)
ShuffleChoicesOffByOne(cur, n) == IF n <= 1 THEN {cur} ELSE {j \in 0..n : j # cur}

\* shuffle() with a single draw instead of the do-while loop
ShuffleChoicesOneDraw(cur, n) == IF n <= 1 THEN {cur} ELSE 0..(n - 1)

\* shuffle(): the indices setCurrent may receive; cur itself when it returns early
ShuffleChoices(cur, n) == IF n <= 1 THEN {cur} ELSE {j \in 0..(n - 1) : j # cur}

\* the seek bar's update(clientX), closed over duration d
SeekCmds(d, p) == IF ~mounted \/ d = 0 THEN <<>> ELSE <<Cmd("currentTime", d * Clamp(p))>>

\* the track-change effect writing "playing" to match the element it started
TrackEffectStatePlaying(rendered) == "playing"

\* setState(state) at the end of the track-change effect: the rendered state
TrackEffectState(rendered) == rendered

\* The continuations left when the element rejects its pending play() promises
\* (a new source is loaded, or pause() is called): those awaiting play() throw.
AbortPlays(ts) == SelectSeq(ts, LAMBDA t : t.at # "play")

\* the track-change effect with the test of userStarted left out
AutoplayUngated(changed, started) == changed

\* the track-change effect runs past its early return: current changed, userStarted
Autoplay(changed, started) == changed /\ started

\* The render caused by a handler and the effects that follow it.
\* aud is the media element after the handler's own commands, cmds those commands.
\* A changed track changes the src of the <audio> element, which resets it.
Render(newCurrent, newVolume, newState, aud, cmds) ==
    LET changedTrack == newCurrent # current
        syncRuns == changedTrack \/ newVolume # volume
        autoplay == Autoplay(changedTrack, userStarted)
        a1 == IF changedTrack THEN [aud EXCEPT !.paused = TRUE, !.hasMeta = FALSE] ELSE aud
        a2 == IF syncRuns THEN [a1 EXCEPT !.volume = newVolume] ELSE a1
        a3 == IF autoplay THEN [a2 EXCEPT !.paused = FALSE] ELSE a2
        syncCmds == IF syncRuns THEN <<Cmd("volume", newVolume)>> ELSE <<>>
        trackCmds == IF autoplay THEN <<Cmd("load", 0), Cmd("play", 0)>> ELSE <<>>
    IN  /\ current' = newCurrent
        /\ volume' = newVolume
        /\ state' = IF autoplay THEN TrackEffectState(newState) ELSE newState
        /\ audio' = a3
        /\ cap' = IF syncRuns
                  THEN [current |-> newCurrent, isShuffle |-> isShuffle, repeatMode |-> repeatMode]
                  ELSE cap
        /\ toggles' = IF changedTrack THEN AbortPlays(toggles) ELSE toggles
        /\ issued' = cmds \o syncCmds \o trackCmds

\* ------------------------------------------------------------------- Init
InitWith(n) ==
    /\ nSongs = n
    /\ current = 0
    /\ state = "paused"
    /\ duration = 0
    /\ volume = InitialVolume
    /\ userStarted = FALSE
    /\ isShuffle = FALSE
    /\ repeatMode = "off"
    /\ mounted = TRUE
    /\ audio = [paused |-> TRUE, hasMeta |-> FALSE, volume |-> InitialVolume]
    /\ cap = [current |-> 0, isShuffle |-> FALSE, repeatMode |-> "off"]
    /\ toggles = <<>>
    /\ drags = <<>>
    /\ raised = FALSE
    /\ pressed = {}
    /\ ptr = 0
    /\ issued = <<Cmd("volume", InitialVolume)>>
    /\ lastOp = <<"mount", "">>

Init == InitWith(NumSongs)

InitTracks == \E n \in 1..MaxSongs : InitWith(n)

\* ---------------------------------------------------------------- controls
\* togglePlay without the test of the state
ToggleIgnoredNever(st) == FALSE

\* the early return of togglePlay: state === "loading"
ToggleIgnored(st) == st = "loading"

togglePlay ==
    /\ mounted
    /\ lastOp' = <<"togglePlay", IF ToggleIgnored(state) THEN "ignored" ELSE "accepted">>
    /\ IF ToggleIgnored(state)
       THEN /\ issued' = <<>>
            /\ UNCHANGED <<state, userStarted, toggles>>
       ELSE /\ Len(toggles) < MaxPending
            /\ userStarted' = TRUE
            /\ state' = "loading"
            /\ toggles' = Append(toggles, [next |-> IF state = "playing" THEN "paused" ELSE "playing",
                                           at |-> "timer"])
            /\ issued' = <<>>
    /\ UNCHANGED <<nSongs, current, duration, volume, isShuffle, repeatMode, mounted,
                   audio, cap, drags, raised,
                   pressed, ptr>>

\* index of the oldest continuation waiting at phase ph, 0 if none
Oldest(ph) ==
    LET S == {i \in 1..Len(toggles) : toggles[i].at = ph}
    IN  IF S = {} THEN 0 ELSE CHOOSE i \in S : \A j \in S : i <= j

Without(s, i) == [k \in 1..(Len(s) - 1) |-> IF k < i THEN s[k] ELSE s[k + 1]]

\* the setTimeout(r, 400) of the oldest waiting togglePlay completes
TimerFire ==
    /\ Oldest("timer") # 0
    /\ lastOp' = <<"timer", "">>
    /\ LET i == Oldest("timer")
           t == toggles[i]
       IN  IF ~mounted
           THEN /\ raised' = TRUE
                /\ toggles' = Without(toggles, i)
                /\ issued' = <<>>
                /\ UNCHANGED <<state, audio>>
           ELSE IF t.next = "playing"
           THEN /\ audio' = [audio EXCEPT !.paused = FALSE]
                /\ issued' = <<Cmd("play", 0)>>
                /\ toggles' = [toggles EXCEPT ![i].at = "play"]
                /\ UNCHANGED <<state, raised>>
           ELSE /\ audio' = [audio EXCEPT !.paused = TRUE]
                /\ issued' = <<Cmd("pause", 0)>>
                /\ state' = t.next
                /\ toggles' = AbortPlays(Without(toggles, i))
                /\ UNCHANGED raised
    /\ UNCHANGED <<nSongs, current, duration, volume, userStarted, isShuffle, repeatMode,
                   mounted, cap, drags,
                   pressed, ptr>>

\* the promise of audioRef.current.play() is fulfilled: setState(next)
PlayResolved ==
    /\ Oldest("play") # 0
    /\ lastOp' = <<"playResolved", "">>
    /\ LET i == Oldest("play")
       IN  /\ toggles' = Without(toggles, i)
           /\ state' = IF mounted THEN toggles[i].next ELSE state
    /\ issued' = <<>>
    /\ UNCHANGED <<nSongs, current, duration, volume, userStarted, isShuffle, repeatMode,
                   mounted, audio, cap, drags, raised,
                   pressed, ptr>>

\* the promise of audioRef.current.play() is rejected: togglePlay throws
PlayRejected ==
    /\ Oldest("play") # 0
    /\ lastOp' = <<"playRejected", "">>
    /\ toggles' = Without(toggles, Oldest("play"))
    /\ issued' = <<>>
    /\ UNCHANGED <<nSongs, current, state, duration, volume, userStarted, isShuffle,
                   repeatMode, mounted, audio, cap, drags, raised,
                   pressed, ptr>>

\* toggleShuffle that also draws a new track at once
toggleShuffleJumps ==
    /\ mounted
    /\ lastOp' = <<"toggleShuffle", "">>
    /\ isShuffle' = ~isShuffle
    /\ \E j \in ShuffleChoices(current, nSongs) : Render(j, volume, state, audio, <<>>)
    /\ UNCHANGED <<nSongs, duration, userStarted, repeatMode, mounted, drags, raised,
                   pressed, ptr>>

toggleShuffle ==
    /\ mounted
    /\ lastOp' = <<"toggleShuffle", "">>
    /\ isShuffle' = ~isShuffle
    /\ issued' = <<>>
    /\ UNCHANGED <<nSongs, current, state, duration, volume, userStarted, repeatMode,
                   mounted, audio, cap, toggles, drags, raised,
                   pressed, ptr>>

toggleRepeat ==
    /\ mounted
    /\ lastOp' = <<"toggleRepeat", "">>
    /\ repeatMode' = NextRepeat(repeatMode)
    /\ issued' = <<>>
    /\ UNCHANGED <<nSongs, current, state, duration, volume, userStarted, isShuffle,
                   mounted, audio, cap, toggles, drags, raised,
                   pressed, ptr>>

\* nextSong() as a set of indices; shuf and cur are the closure's isShuffle and current
NextSongChoices(shuf, cur, prev, n) ==
    IF shuf THEN ShuffleChoices(cur, n) ELSE {NextIndex(prev, n)}

\* click on the Next button: nextSong of the latest render
nextSong ==
    /\ mounted
    /\ lastOp' = <<"nextSong", IF isShuffle THEN "shuffle" ELSE "next">>
    /\ \E j \in NextSongChoices(isShuffle, current, current, nSongs) :
           Render(j, volume, state, audio, <<>>)
    /\ UNCHANGED <<nSongs, duration, userStarted, isShuffle, repeatMode, mounted,
                   drags, raised,
                   pressed, ptr>>

\* click on the Previous button
prevSong ==
    /\ mounted
    /\ lastOp' = <<"prevSong", "">>
    /\ Render(PrevIndex(current, nSongs), volume, state, audio, <<>>)
    /\ UNCHANGED <<nSongs, duration, userStarted, isShuffle, repeatMode, mounted,
                   drags, raised,
                   pressed, ptr>>

\* ------------------------------------------------------ media element events
\* "loadedmetadata": setMeta
LoadedMetadata ==
    /\ mounted
    /\ ~audio.hasMeta
    /\ lastOp' = <<"loadedmetadata", "">>
    /\ audio' = [audio EXCEPT !.hasMeta = TRUE]
    /\ duration' = TrackDuration(current)
    /\ issued' = <<>>
    /\ UNCHANGED <<nSongs, current, state, volume, userStarted, isShuffle, repeatMode,
                   mounted, cap, toggles, drags, raised,
                   pressed, ptr>>

\* what onEnd does, from the values c its closure holds: the branch taken and the
\* indices setCurrent may receive (prev, the live index, where it is not called)
OnEndOutcome(c, prev, n) ==
    IF c.repeatMode = "one" THEN [kind |-> "replay", to |-> {prev}]
    ELSE IF c.isShuffle THEN [kind |-> "shuffle", to |-> ShuffleChoices(c.current, n)]
    ELSE IF c.repeatMode = "all"
         THEN [kind |-> "next", to |-> NextSongChoices(c.isShuffle, c.current, prev, n)]
    ELSE IF c.current < n - 1
         THEN [kind |-> "next", to |-> NextSongChoices(c.isShuffle, c.current, prev, n)]
    ELSE [kind |-> "pause", to |-> {prev}]

\* "ended": playback reached the end of the track (so it had started, and no
\* play() promise is pending any more); the element pauses itself
Ended ==
    /\ mounted
    /\ ~audio.paused
    /\ audio.hasMeta
    /\ Oldest("play") = 0
    /\ LET o == OnEndOutcome(cap, current, nSongs)
           stopped == [audio EXCEPT !.paused = TRUE]
       IN  /\ lastOp' = <<"ended", o.kind>>
           /\ IF o.kind = "replay"
              THEN Render(current, volume, state, [stopped EXCEPT !.paused = FALSE],
                          <<Cmd("play", 0)>>)
              ELSE IF o.kind = "pause"
              THEN Render(current, volume, "paused", stopped, <<>>)
              ELSE \E j \in o.to : Render(j, volume, state, stopped, <<>>)
    /\ UNCHANGED <<nSongs, duration, userStarted, isShuffle, repeatMode, mounted,
                   drags, raised,
                   pressed, ptr>>

\* ------------------------------------------------------------ pointer drags
\* the listener pair a pointer-down registers; a seek update closes over duration
SeekDrag(dev) == [dev |-> dev, bar |-> "seek", duration |-> duration]
VolumeDrag(dev) == [dev |-> dev, bar |-> "volume", duration |-> 0]

\* seek bar onMouseDown ("mouse") / onTouchStart ("touch")
SeekDown(dev, p) ==
    /\ mounted
    /\ Len(drags) < MaxDrags
    /\ lastOp' = <<"seekDown", dev>>
    /\ issued' = SeekCmds(duration, p)
    /\ drags' = Append(drags, SeekDrag(dev))
    /\ pressed' = pressed \cup {dev}
    /\ ptr' = p
    /\ UNCHANGED <<nSongs, current, state, duration, volume, userStarted, isShuffle,
                   repeatMode, mounted, audio, cap, toggles, raised>>

SeekMouseDown == \E p \in Fractions : SeekDown("mouse", p)
SeekTouchStart == \E p \in Fractions : SeekDown("touch", p)

\* volume bar onMouseDown ("mouse") / onTouchStart ("touch")
VolumeDown(dev, p) ==
    /\ mounted
    /\ Len(drags) < MaxDrags
    /\ lastOp' = <<"volumeDown", dev>>
    /\ Render(current, Clamp(p), state, audio, <<>>)
    /\ drags' = Append(drags, VolumeDrag(dev))
    /\ pressed' = pressed \cup {dev}
    /\ ptr' = p
    /\ UNCHANGED <<nSongs, duration, userStarted, isShuffle, repeatMode, mounted, raised>>

VolumeMouseDown == \E p \in Fractions : VolumeDown("mouse", p)
VolumeTouchStart == \E p \in Fractions : VolumeDown("touch", p)

\* the listeners of device dev, in registration order
Listeners(dev) == SelectSeq(drags, LAMBDA d : d.dev = dev)

\* the commands the move listeners in ls issue at fraction p
RECURSIVE MoveCmds(_, _)
MoveCmds(ls, p) ==
    IF ls = <<>> THEN <<>>
    ELSE (IF Head(ls).bar = "seek" THEN SeekCmds(Head(ls).duration, p) ELSE <<>>)
         \o MoveCmds(Tail(ls), p)

\* window "mousemove" / "touchmove" at fraction p
Move(dev, p) ==
    /\ Listeners(dev) # <<>>
    /\ lastOp' = <<"move", dev>>
    /\ LET ls == Listeners(dev)
           setsVolume == \E i \in 1..Len(ls) : ls[i].bar = "volume"
       IN  IF mounted
           THEN Render(current, IF setsVolume THEN Clamp(p) ELSE volume, state, audio,
                       MoveCmds(ls, p))
           ELSE /\ issued' = MoveCmds(ls, p)
                /\ UNCHANGED <<current, volume, state, audio, cap, toggles>>
    /\ ptr' = p
    /\ UNCHANGED <<nSongs, duration, userStarted, isShuffle, repeatMode, mounted,
                   drags, raised, pressed>>

MouseMove == \E p \in Fractions : Move("mouse", p)
TouchMove == \E p \in Fractions : Move("touch", p)

\* window "mouseup" / "touchend": every up/end listener of the device removes
\* its move listener and itself
Up(dev) ==
    /\ Listeners(dev) # <<>>
    /\ lastOp' = <<"up", dev>>
    /\ drags' = SelectSeq(drags, LAMBDA d : d.dev # dev)
    /\ pressed' = pressed \ {dev}
    /\ issued' = <<>>
    /\ UNCHANGED <<nSongs, current, state, duration, volume, userStarted, isShuffle,
                   repeatMode, mounted, audio, cap, toggles, raised, ptr>>

MouseUp == Up("mouse")
TouchEnd == Up("touch")

\* window "touchcancel": the touch drag ends; no listener is registered for it
TouchCancel ==
    /\ "touch" \in pressed
    /\ lastOp' = <<"touchcancel", "touch">>
    /\ pressed' = pressed \ {"touch"}
    /\ issued' = <<>>
    /\ UNCHANGED <<nSongs, current, state, duration, volume, userStarted, isShuffle,
                   repeatMode, mounted, audio, cap, toggles, drags, raised, ptr>>

\* the component unmounts: audioRef.current becomes null, the effect cleanup
\* runs (it removes the audio listeners only); the bars are gone, so no drag is
\* in progress any more
Unmount ==
    /\ mounted
    /\ lastOp' = <<"unmount", "">>
    /\ mounted' = FALSE
    /\ pressed' = {}
    /\ issued' = <<>>
    /\ UNCHANGED <<nSongs, current, state, duration, volume, userStarted, isShuffle,
                   repeatMode, audio, cap, toggles, drags, raised, ptr>>

\* the transport controls, the play/pause continuations and the media element's events
Next ==
    \/ togglePlay
    \/ TimerFire
    \/ PlayResolved
    \/ PlayRejected
    \/ toggleShuffle
    \/ toggleRepeat
    \/ nextSong
    \/ prevSong
    \/ LoadedMetadata
    \/ Ended
    \/ Unmount

\* the pointer interactions with the two bars, with the events that change what
\* their handlers read: the track, the duration and audioRef
NextDrag ==
    \/ SeekMouseDown
    \/ SeekTouchStart
    \/ VolumeMouseDown
    \/ VolumeTouchStart
    \/ MouseMove
    \/ TouchMove
    \/ MouseUp
    \/ TouchEnd
    \/ TouchCancel
    \/ nextSong
    \/ prevSong
    \/ LoadedMetadata
    \/ Unmount

Spec == Init /\ [][Next]_vars

SpecTracks == InitTracks /\ [][Next]_vars

SpecDrag == Init /\ [][NextDrag]_vars

\* the 400 ms timer of an accepted togglePlay fires, and the promise of a
\* play() call settles, one way or the other
SpecFair == Init /\ [][Next]_vars /\ WF_vars(TimerFire) /\ WF_vars(PlayResolved \/ PlayRejected)
\* ------------------------------------------------------------------ claims
Op == lastOp[1]
Branch == lastOp[2]
Valid(i) == i \in 0..(nSongs - 1)
Issues(cmds, c) == \E k \in 1..Len(cmds) : cmds[k].cmd = c

\* C1: a togglePlay requested while the state is "loading" leaves the state at
\* "loading", issues no command to the media element and schedules no new
\* delayed transition.
C1_ToggleWhileLoadingIsNoOp ==
    [][(Op' = "togglePlay" /\ state = "loading")
        => (state' = "loading" /\ issued' = <<>> /\ toggles' = toggles /\ audio' = audio)]_vars

C1_Witness == lastOp = <<"togglePlay", "ignored">> /\ state = "loading" /\ toggles # <<>>

\* C2: an accepted togglePlay moves the state to "loading" at once and issues no
\* command; play and pause of a toggle are issued only when the delay has
\* elapsed; the state then becomes the toggle's target; and the state never
\* goes from "paused" to "playing" in one step, nor does a toggle take it from
\* "playing" to "paused" in one step.
C2_ToggleThroughLoading ==
    [][/\ (Op' = "togglePlay" /\ state # "loading") => (state' = "loading" /\ issued' = <<>>)
       /\ Issues(issued', "pause") => Op' = "timer"
       /\ (Op' \in {"togglePlay", "playResolved", "playRejected"}) => ~Issues(issued', "play")
       /\ ~(state = "paused" /\ state' = "playing")
       /\ (Op' \in {"togglePlay", "timer", "playResolved"}) => ~(state = "playing" /\ state' = "paused")
      ]_vars

\* C3: at end-of-track the outcome follows the priority order (a) repeat one,
\* (b) shuffle, (c) repeat all, (d) a next track exists, (e) stop, decided from
\* the widget's repeat mode, shuffle flag and current index.
C3_EndOfTrackPriority ==
    [][Op' = "ended" =>
         IF repeatMode = "one" THEN current' = current /\ Issues(issued', "play")
         ELSE IF isShuffle THEN Valid(current') /\ (nSongs > 1 => current' # current)
         ELSE IF repeatMode = "all" THEN current' = (current + 1) % nSongs
         ELSE IF current < nSongs - 1 THEN current' = current + 1
         ELSE state' = "paused" /\ current' = current
      ]_vars

\* C4: in every reachable state the current track index is an integer in
\* [0, trackCount - 1].
C4_IndexValid == current \in 0..(nSongs - 1)

C4_Witness == Op = "prevSong" /\ current = nSongs - 1 /\ userStarted

\* C5: Next with shuffle off sets the index to (i + 1) mod trackCount; with
\* shuffle on it takes the index from the shuffle selector (a valid index other
\* than i) instead.
C5_NextAdvances ==
    [][Op' = "nextSong" =>
         IF isShuffle THEN Valid(current') /\ current' # current
         ELSE current' = (current + 1) % nSongs
      ]_vars

C5_Witness == lastOp = <<"nextSong", "next">> /\ current = 0

\* C6: Previous sets the index to (i - 1 + trackCount) mod trackCount whatever
\* the shuffle flag and the repeat mode are.
C6_PrevDecrements ==
    [][Op' = "prevSong" => current' = (current - 1 + nSongs) % nSongs]_vars

C6_Witness ==
    Op = "prevSong" /\ current = nSongs - 1 /\ isShuffle /\ repeatMode = "one"

\* C7: whenever the shuffle selector runs (Next with shuffle on, end-of-track),
\* for trackCount > 1 it sets a valid index other than the one current at that
\* moment, and for trackCount = 1 it leaves the index unchanged.
C7_ShuffleAvoidsCurrent ==
    [][Branch' = "shuffle" =>
         IF nSongs > 1 THEN Valid(current') /\ current' # current
         ELSE current' = current
      ]_vars

C7_Witness == lastOp = <<"ended", "shuffle">> /\ nSongs > 1

C7_WitnessSingle == Branch = "shuffle" /\ nSongs = 1

\* C8: a repeat toggle yields the successor in the cycle off -> one -> all ->
\* off, and two further toggles bring the mode back to what it was.
CycleSucc(mode) == CASE mode = "off" -> "one" [] mode = "one" -> "all" [] mode = "all" -> "off"

C8_RepeatCycles ==
    [][Op' = "toggleRepeat" =>
         /\ repeatMode' = CycleSucc(repeatMode)
         /\ NextRepeat(NextRepeat(repeatMode')) = repeatMode
      ]_vars

C8_Witness == Op = "toggleRepeat" /\ repeatMode = "off"

\* C9: toggling shuffle changes only the shuffle flag and toggling repeat only
\* the repeat mode: the playback state, the track index, the volume, the
\* user-started flag and the media element are untouched and no command is issued.
C9_TogglesFrame ==
    [][Op' \in {"toggleShuffle", "toggleRepeat"} =>
         /\ UNCHANGED <<state, current, volume, userStarted, audio, duration, toggles>>
         /\ issued' = <<>>
         /\ Op' = "toggleShuffle" => (isShuffle' = ~isShuffle /\ repeatMode' = repeatMode)
         /\ Op' = "toggleRepeat" => (isShuffle' = isShuffle /\ repeatMode' # repeatMode)
      ]_vars

C9_Witness == Op = "toggleShuffle" /\ isShuffle /\ state = "playing" /\ ~audio.paused

\* C10: when the track index changes after the first user-initiated playback,
\* the source is reloaded and play is issued whatever the state was, and
\* afterwards the displayed state matches the element: with the element
\* playing, the state is not "paused".
C10_TrackChangeAutoplaySyncsState ==
    [][(current' # current /\ userStarted) =>
         /\ Issues(issued', "load") /\ Issues(issued', "play")
         /\ ~audio'.paused => state' # "paused"
      ]_vars

\* the clamp to [0, 1] as the claims state it, in percent
ClampTo(p) == IF p < 0 THEN 0 ELSE IF p > 100 THEN 100 ELSE p

\* C11: a change of track (Next, Previous, a shuffle pick, the end-of-track
\* advance) does not change the playback state: whenever a step changes the
\* current index, the state after the track-change effect has run is the state
\* before the step.
C11_TrackChangeKeepsState == [][current' # current => state' = state]_vars

\* a track change whose effect ran past its early return while the state was "paused"
C11_Witness ==
    /\ Op \in {"nextSong", "prevSong", "ended"}
    /\ Issues(issued, "load")
    /\ state = "paused"

C13_VolumeClamped ==
    /\ volume \in 0..100
    /\ audio.volume \in 0..100
    /\ Op = "volumeDown" => volume = ClampTo(ptr)
    /\ (/\ Op = "move"
        /\ mounted
        /\ \E i \in 1..Len(drags) : drags[i].dev = Branch /\ drags[i].bar = "volume")
       => volume = ClampTo(ptr)

\* a touch drag of the volume bar moved beyond the right end of the bar
C13_Witness == Op = "move" /\ Branch = "touch" /\ ptr > 100 /\ volume = 100 /\ mounted

\* the currentTime commands among cmds, in the order they were issued
TimeCmds(cmds) == SelectSeq(cmds, LAMBDA c : c.cmd = "currentTime")

\* the last step was a pointer-down on the seek bar or a move of a seek drag
SeekStep ==
    \/ Op = "seekDown"
    \/ /\ Op = "move"
       /\ \E i \in 1..Len(drags) : drags[i].dev = Branch /\ drags[i].bar = "seek"

\* C14: a pointer-down on the seek bar or a drag move of a seek drag at
\* fraction p, while the duration D of the current track is known, sets the
\* current time to clamp(p, 0, 1) * D, so every commanded time is within
\* [0, D]; mouse and touch compute the same.
C14_SeekSetsClampedTime ==
    (SeekStep /\ mounted /\ audio.hasMeta)
    => LET D == TrackDuration(current)
           ts == TimeCmds(issued)
       IN  /\ ts # <<>>
           /\ ts[Len(ts)].arg = D * ClampTo(ptr)
           /\ \A k \in 1..Len(ts) : ts[k].arg \in 0..(D * 100)

\* C15: seeking is a no-op whenever the duration of the current track is not
\* yet known, also right after a track change, before loadedmetadata has fired
\* for the new track: such a seek step commands no current time.
C15_SeekNoOpWithoutDuration ==
    (SeekStep /\ ~audio.hasMeta) => ~Issues(issued, "currentTime")

\* C20: the window drag listeners are paired with their removal however the
\* drag ends (mouse-up, touch-end, touch-cancel, a second pointer-down before
\* the release, unmount): in every state, a device with no drag in progress
\* has no drag listener left on the window.
C20_NoListenerWithoutDrag ==
    \A i \in 1..Len(drags) : drags[i].dev \in pressed

\* the values of the current render that the end-of-track handler would read
Live == [current |-> current, isShuffle |-> isShuffle, repeatMode |-> repeatMode]

\* C16: the end-of-track handler never acts on stale values: at every step
\* where "ended" fires, the current index, the shuffle flag and the repeat mode
\* its listener reads are the widget's values at that moment, also when shuffle
\* or repeat was toggled after the track was selected and the volume was not
\* changed since.
C16_EndedReadsLiveValues == [][Op' = "ended" => cap = Live]_vars

\* C18: at most one togglePlay is pending in every reachable state, whatever
\* the interleaving with end-of-track events, track changes and timer
\* completions.
C18_OneTogglePending == Len(toggles) <= 1

\* C19: every command to the media element is behind a null check: when the
\* widget unmounts while a togglePlay waits out its delay, the completion of
\* the delay issues no play or pause command, raises no error and discards the
\* pending state update.
C19_NoErrorAfterUnmount ==
    /\ ~raised
    /\ ~mounted => ~Issues(issued, "play") /\ ~Issues(issued, "pause")

\* C17: "loading" is transient: with a fair timer and a play() promise that
\* settles, a mounted widget in "loading" eventually leaves "loading", also
\* when the play attempt fails.
C17_LoadingIsTransient ==
    (mounted /\ state = "loading") ~> (~mounted \/ state # "loading")

====
